---- MODULE Spec2Model ----
(***************************************************************************)
(* TranslationCache (src/src/translation-cache.ts): a size-bounded,        *)
(* time-expiring key-value cache persisted through the extension's         *)
(* globalState, with a debounced save.                                     *)
(*                                                                         *)
(* Strings are TLA+ strings (Len and \o act on them as on the source's     *)
(* strings).  The JS Map is a sequence of [key, item] pairs in insertion   *)
(* order, because Array.from(cache.entries()) and the stable sort of       *)
(* checkAndCleanCacheSize observe that order.  Times are epoch             *)
(* milliseconds.                                                           *)
(*                                                                         *)
(* Spec is the cache over a storage that takes every write; SpecFailing    *)
(* adds the calls whose write the storage does not take.  SpecShared is    *)
(* the two caches that activation builds over one extension context, and   *)
(* SpecExtension the extension around them (src/src/baidu-translator.ts,   *)
(* src/src/tencent-translator.ts): activation, the configuration listener, *)
(* the translate command and translate() of both translators.  There the   *)
(* variables of the cache are the instance of the Baidu translator and     *)
(* peer is the instance of the Tencent translator.                         *)
(***************************************************************************)
EXTENDS Integers, Sequences, FiniteSets, TLC

VARIABLES
  cache,            \* this.cache: Map<string, CacheItem>, in insertion order
  currentCacheSize, \* this.currentCacheSize
  metrics,          \* this.metrics {hits, misses, totalResponseTime, responses}
  lastSaveTime,     \* this.lastSaveTime
  expirationTime,   \* this.expirationTime (ms)
  maxCacheSize,     \* this.maxCacheSize (bytes)
  globalState,      \* context.globalState record 'uliTranslation.cache'
  now,              \* the clock read by Date.now()
  steps,            \* number of steps taken so far
  loadFailed,       \* whether the catch of loadCache ran when this instance was built
  lastWrite,        \* <<t>>: this instance last replaced the durable record at t; <<>>: never
  observed,         \* what the callers of get saw since this instance was built
  last,             \* what the last call was and did (see Call)
  settings,         \* vscode.workspace.getConfiguration('uliTranslation')
  peer,             \* tencentTranslator.cache: the second instance over the
                    \* same context; <<>> where there is none
  pending,          \* the remote requests in flight
  event             \* what the last handler of the extension did (see NoEvent)

vars == <<cache, currentCacheSize, metrics, lastSaveTime, expirationTime,
          maxCacheSize, globalState, now, steps,
          loadFailed, lastWrite, observed, last,
          settings, peer, pending, event>>

\* the state of the extension around the cache
extension == <<settings, peer, pending, event>>

----------------------------------------------------------------------------
(* Bounds of the exploration *)

\* steps taken after the first construction: calls to the cache
\* (construction, set, get, clear) and advances of the clock
MaxSteps == 4

(* Program constants *)

SaveDebounceWindow == 1000
TimestampSize == 8
DayMs == 24 * 60 * 60 * 1000
MBytes == 1024 * 1024

\* the short advance of the clock (half the debounce window), and the time
\* of the first construction
StepMs == SaveDebounceWindow \div 2
StartTime == 2 * StepMs

\* get() returns string | null; a returned string is wrapped so that null
\* differs from every string, the empty one included
Null == <<>>
Some(v) == <<v>>

----------------------------------------------------------------------------
(* Inputs *)

\* (text, from, to) triples the callers pass.  "a|v" is a variant key
\* `${text}|${label}` passed as the text.
Requests ==
  { <<"a", "en", "zh">>, <<"a", "en", "de">>, <<"a", "de", "zh">>,
    <<"a|v", "en", "zh">> }

Results == {"x", ""}

\* constructor arguments: expirationDays, and maxCacheSizeMB as the fraction
\* num/den (the argument is any JS number: 70/2^20 MB is a cap of 70 bytes,
\* 20/1 the default 20 MB)
Configs ==
  { [expirationDays |-> 1, maxCacheSizeMB |-> [num |-> 70, den |-> MBytes]],
    [expirationDays |-> 1, maxCacheSizeMB |-> [num |-> 20, den |-> 1]] }

----------------------------------------------------------------------------
(* Pure helpers *)

HasSeparator(s) == \E i \in 1..Len(s) : SubSeq(s, i, i) = "|"


\* generateKey without the target language
generateKeyNoTo(text, from, to) == text \o "|" \o from

generateKey(text, from, to) == text \o "|" \o from \o "|" \o to

calculateItemSize(key, item) ==
  Len(key) * 2 + Len(item.result) * 2 + Len(item.from) * 2 + Len(item.to) * 2
    + TimestampSize

(* Map<string, CacheItem> as a sequence of [key, item] in insertion order *)

MapHas(m, key) == \E i \in 1..Len(m) : m[i].key = key

MapIndex(m, key) == CHOOSE i \in 1..Len(m) : m[i].key = key

MapGet(m, key) == m[MapIndex(m, key)].item

\* Map.prototype.set: an existing key keeps its position
MapSet(m, key, item) ==
  IF MapHas(m, key)
  THEN [m EXCEPT ![MapIndex(m, key)] = [key |-> key, item |-> item]]
  ELSE Append(m, [key |-> key, item |-> item])

MapDelete(m, key) == SelectSeq(m, LAMBDA e : e.key # key)

RECURSIVE SumSizes(_)
SumSizes(m) ==
  IF m = <<>> THEN 0
  ELSE calculateItemSize(Head(m).key, Head(m).item) + SumSizes(Tail(m))

\* the object saveCache builds from the Map: one property per entry, in
\* insertion order
cacheObject(m) ==
  [kind |-> "object",
   entries |-> [i \in 1..Len(m) |-> [key |-> m[i].key, item |-> <<m[i].item>>]]]

----------------------------------------------------------------------------
(* Persisted snapshots.  kind "absent": globalState.get returns undefined;  *)
(* "unreadable": globalState.get throws; "object": a mapping key -> item,    *)
(* where an item <<>> is a null property value (a malformed entry) and       *)
(* <<it>> a CacheItem.                                                       *)

Absent == [kind |-> "absent", entries |-> <<>>]
Unreadable == [kind |-> "unreadable", entries |-> <<>>]

Item(result, timestamp, from, to) ==
  [result |-> result, timestamp |-> timestamp, from |-> from, to |-> to]

GoodA == [key |-> "a|en|zh", item |-> <<Item("x", 0, "en", "zh")>>]
GoodB == [key |-> "a|en|de", item |-> <<Item("x", StepMs, "en", "de")>>]
BadC == [key |-> "a|de|zh", item |-> <<>>]

InitialSnapshots ==
  { Absent, Unreadable,
    [kind |-> "object", entries |-> <<GoodA, GoodB>>],
    [kind |-> "object", entries |-> <<GoodA, BadC, GoodB>>] }

----------------------------------------------------------------------------
(* The methods, as functions of the instance's fields.  An instance is the  *)
(* record s of its fields, together with the durable record and the log of  *)
(* what the call did: the entries it evicted and the outcome of each of its *)
(* save requests.                                                            *)


\* saveCache that does not record the time of the write
saveCacheNoStamp(s, t) ==
  IF t - s.lastSaveTime < SaveDebounceWindow
  THEN [s EXCEPT !.saves = Append(@, "dropped")]
  ELSE IF s.accepts
       THEN [s EXCEPT !.globalState = cacheObject(s.cache),
                      !.lastWrite = <<t>>,
                      !.saves = Append(@, "written")]
       ELSE [s EXCEPT !.saves = Append(@, "rejected")]

\* saveCache whose catch falls back to an empty Map, as the catch of loadCache
\* does
saveCacheResetsOnFailure(s, t) ==
  IF t - s.lastSaveTime < SaveDebounceWindow
  THEN [s EXCEPT !.saves = Append(@, "dropped")]
  ELSE IF s.accepts
       THEN [s EXCEPT !.lastSaveTime = t,
                      !.globalState = cacheObject(s.cache),
                      !.lastWrite = <<t>>,
                      !.saves = Append(@, "written")]
       ELSE [s EXCEPT !.lastSaveTime = t,
                      !.cache = <<>>,
                      !.saves = Append(@, "rejected")]

\* saveCache that adds the entries of the Map to the record it finds
saveCacheMerges(s, t) ==
  IF t - s.lastSaveTime < SaveDebounceWindow
  THEN [s EXCEPT !.saves = Append(@, "dropped")]
  ELSE IF s.accepts
       THEN [s EXCEPT !.lastSaveTime = t,
                      !.globalState =
                        [kind |-> "object",
                         entries |->
                           SelectSeq(s.globalState.entries,
                                     LAMBDA e : ~MapHas(s.cache, e.key))
                             \o cacheObject(s.cache).entries],
                      !.lastWrite = <<t>>,
                      !.saves = Append(@, "written")]
       ELSE [s EXCEPT !.lastSaveTime = t,
                      !.saves = Append(@, "rejected")]

\* s.accepts: whether globalState.update takes the record.  When it throws,
\* the catch logs and returns; when the promise it returns is rejected,
\* nobody awaits it.  Either way the durable record is not replaced, and
\* lastSaveTime was already set.
saveCache(s, t) ==
  IF t - s.lastSaveTime < SaveDebounceWindow
  THEN [s EXCEPT !.saves = Append(@, "dropped")]
  ELSE IF s.accepts
       THEN [s EXCEPT !.lastSaveTime = t,
                      !.globalState = cacheObject(s.cache),
                      !.lastWrite = <<t>>,
                      !.saves = Append(@, "written")]
       ELSE [s EXCEPT !.lastSaveTime = t,
                      !.saves = Append(@, "rejected")]

\* the forEach of loadCache over Object.keys(cachedData); calculateItemSize
\* throws on a null item after cache.set stored it, and the catch replaces
\* the Map but leaves currentCacheSize as accumulated so far
RECURSIVE loadEntries(_, _, _)
loadEntries(entries, m, size) ==
  IF entries = <<>>
  THEN [cache |-> m, currentCacheSize |-> size, loadFailed |-> FALSE]
  ELSE LET e == Head(entries) IN
       IF e.item = <<>>
       THEN [cache |-> <<>>, currentCacheSize |-> size, loadFailed |-> TRUE]
       ELSE loadEntries(Tail(entries), MapSet(m, e.key, e.item[1]),
                        size + calculateItemSize(e.key, e.item[1]))

loadCache(gs) ==
  IF gs.kind = "object" THEN loadEntries(gs.entries, <<>>, 0)
  ELSE IF gs.kind = "unreadable"
       THEN [cache |-> <<>>, currentCacheSize |-> 0, loadFailed |-> TRUE]
       ELSE [cache |-> <<>>, currentCacheSize |-> 0, loadFailed |-> FALSE]

\* the sweep as a loop over an array that deletes in place: the entry that
\* follows a deleted one is skipped
RECURSIVE sweepSkippingNext(_, _, _)
sweepSkippingNext(m, t, window) ==
  IF m = <<>> THEN <<>>
  ELSE IF t - Head(m).item.timestamp > window
       THEN (IF Len(m) > 1 THEN <<m[2]>> ELSE <<>>)
              \o sweepSkippingNext(SubSeq(m, 3, Len(m)), t, window)
       ELSE <<Head(m)>> \o sweepSkippingNext(Tail(m), t, window)

cleanExpiredCacheSkipsNext(s, t) ==
  LET kept == sweepSkippingNext(s.cache, t, s.expirationTime)
      expiredCount == Len(s.cache) - Len(kept)
      s1 == [s EXCEPT !.cache = kept]
  IN IF expiredCount > 0 THEN saveCache(s1, t) ELSE s1

cleanExpiredCache(s, t) ==
  LET kept == SelectSeq(s.cache,
                        LAMBDA e : ~(t - e.item.timestamp > s.expirationTime))
      expiredCount == Len(s.cache) - Len(kept)
      s1 == [s EXCEPT !.cache = kept]
  IN IF expiredCount > 0 THEN saveCache(s1, t) ELSE s1

NoMetrics == [hits |-> 0, misses |-> 0, totalResponseTime |-> 0, responses |-> 0]

\* new TranslationCache(context, expirationDays, maxCacheSizeMB) at time t
\* over the durable record gs
Constructor(gs, cfg, t) ==
  LET loaded == loadCache(gs)
      s0 == [cache |-> loaded.cache,
             currentCacheSize |-> loaded.currentCacheSize,
             metrics |-> NoMetrics,
             lastSaveTime |-> t,
             expirationTime |-> cfg.expirationDays * 24 * 60 * 60 * 1000,
             maxCacheSize |->
               (cfg.maxCacheSizeMB.num * 1024 * 1024) \div cfg.maxCacheSizeMB.den,
             globalState |-> gs,
             loadFailed |-> loaded.loadFailed,
             lastWrite |-> <<>>,
             accepts |-> TRUE,
             ret |-> Null,
             saves |-> <<>>,
             evicted |-> <<>>]
  IN cleanExpiredCache(s0, t)


\* get that returns null for an expired entry but leaves it in the Map
getKeepsExpired(s, text, from, to, t, elapsed) ==
  LET key == generateKey(text, from, to) IN
  IF ~MapHas(s.cache, key)
  THEN [s EXCEPT !.metrics.misses = @ + 1, !.ret = Null]
  ELSE LET cachedItem == MapGet(s.cache, key) IN
       IF t - cachedItem.timestamp > s.expirationTime
       THEN saveCache([s EXCEPT !.ret = Null], t)
       ELSE [s EXCEPT !.metrics.hits = @ + 1,
                      !.metrics.totalResponseTime = @ + elapsed,
                      !.metrics.responses = @ + 1,
                      !.ret = Some(cachedItem.result)]

\* get that counts a response on the miss path too
getTimesMisses(s, text, from, to, t, elapsed) ==
  LET key == generateKey(text, from, to) IN
  IF ~MapHas(s.cache, key)
  THEN [s EXCEPT !.metrics.misses = @ + 1,
                 !.metrics.totalResponseTime = @ + elapsed,
                 !.metrics.responses = @ + 1,
                 !.ret = Null]
  ELSE LET cachedItem == MapGet(s.cache, key) IN
       IF t - cachedItem.timestamp > s.expirationTime
       THEN saveCache([s EXCEPT !.cache = MapDelete(@, key), !.ret = Null], t)
       ELSE [s EXCEPT !.metrics.hits = @ + 1,
                      !.metrics.totalResponseTime = @ + elapsed,
                      !.metrics.responses = @ + 1,
                      !.ret = Some(cachedItem.result)]

\* get that counts the lookup of an expired entry as a miss
getCountsExpiredAsMiss(s, text, from, to, t, elapsed) ==
  LET key == generateKey(text, from, to) IN
  IF ~MapHas(s.cache, key)
  THEN [s EXCEPT !.metrics.misses = @ + 1, !.ret = Null]
  ELSE LET cachedItem == MapGet(s.cache, key) IN
       IF t - cachedItem.timestamp > s.expirationTime
       THEN saveCache([s EXCEPT !.cache = MapDelete(@, key),
                                !.metrics.misses = @ + 1,
                                !.ret = Null], t)
       ELSE [s EXCEPT !.metrics.hits = @ + 1,
                      !.metrics.totalResponseTime = @ + elapsed,
                      !.metrics.responses = @ + 1,
                      !.ret = Some(cachedItem.result)]

\* get that refreshes the timestamp of the entry it returns
getTouches(s, text, from, to, t, elapsed) ==
  LET key == generateKey(text, from, to) IN
  IF ~MapHas(s.cache, key)
  THEN [s EXCEPT !.metrics.misses = @ + 1, !.ret = Null]
  ELSE LET cachedItem == MapGet(s.cache, key) IN
       IF t - cachedItem.timestamp > s.expirationTime
       THEN saveCache([s EXCEPT !.cache = MapDelete(@, key), !.ret = Null], t)
       ELSE [s EXCEPT !.metrics.hits = @ + 1,
                      !.metrics.totalResponseTime = @ + elapsed,
                      !.metrics.responses = @ + 1,
                      !.cache = MapSet(@, key, [cachedItem EXCEPT !.timestamp = t]),
                      !.ret = Some(cachedItem.result)]

\* get that treats an entry as expired once its age reaches the window
getExpiresAtWindow(s, text, from, to, t, elapsed) ==
  LET key == generateKey(text, from, to) IN
  IF ~MapHas(s.cache, key)
  THEN [s EXCEPT !.metrics.misses = @ + 1, !.ret = Null]
  ELSE LET cachedItem == MapGet(s.cache, key) IN
       IF t - cachedItem.timestamp >= s.expirationTime
       THEN saveCache([s EXCEPT !.cache = MapDelete(@, key), !.ret = Null], t)
       ELSE [s EXCEPT !.metrics.hits = @ + 1,
                      !.metrics.totalResponseTime = @ + elapsed,
                      !.metrics.responses = @ + 1,
                      !.ret = Some(cachedItem.result)]

\* get that requests a save on the hit path too
getSavesOnHit(s, text, from, to, t, elapsed) ==
  LET key == generateKey(text, from, to) IN
  IF ~MapHas(s.cache, key)
  THEN [s EXCEPT !.metrics.misses = @ + 1, !.ret = Null]
  ELSE LET cachedItem == MapGet(s.cache, key) IN
       IF t - cachedItem.timestamp > s.expirationTime
       THEN saveCache([s EXCEPT !.cache = MapDelete(@, key), !.ret = Null], t)
       ELSE saveCache([s EXCEPT !.metrics.hits = @ + 1,
                                !.metrics.totalResponseTime = @ + elapsed,
                                !.metrics.responses = @ + 1,
                                !.ret = Some(cachedItem.result)], t)

\* get(text, from, to) at time t; elapsed is Date.now() - startTime on the
\* hit path.  ret is the value returned.
get(s, text, from, to, t, elapsed) ==
  LET key == generateKey(text, from, to) IN
  IF ~MapHas(s.cache, key)
  THEN [s EXCEPT !.metrics.misses = @ + 1, !.ret = Null]
  ELSE LET cachedItem == MapGet(s.cache, key) IN
       IF t - cachedItem.timestamp > s.expirationTime
       THEN saveCache([s EXCEPT !.cache = MapDelete(@, key), !.ret = Null], t)
       ELSE [s EXCEPT !.metrics.hits = @ + 1,
                      !.metrics.totalResponseTime = @ + elapsed,
                      !.metrics.responses = @ + 1,
                      !.ret = Some(cachedItem.result)]

\* Array.prototype.sort with (a, b) => a.timestamp - b.timestamp: stable,
\* oldest first (each entry goes into the sorted prefix after its equals)
RECURSIVE InsertByTimestamp(_, _)
InsertByTimestamp(sorted, e) ==
  IF sorted = <<>> THEN <<e>>
  ELSE IF e.item.timestamp < Head(sorted).item.timestamp
       THEN <<e>> \o sorted
       ELSE <<Head(sorted)>> \o InsertByTimestamp(Tail(sorted), e)


\* no sort: the entries in the Map's insertion order
SortByInsertion(m) == m

RECURSIVE SortByTimestamp(_)
SortByTimestamp(m) ==
  IF m = <<>> THEN <<>>
  ELSE InsertByTimestamp(SortByTimestamp(SubSeq(m, 1, Len(m) - 1)), m[Len(m)])


\* the eviction loop without the size test: it runs until no item is left
RECURSIVE evictLoopAll(_, _)
evictLoopAll(s, items) ==
  IF Len(items) > 0
  THEN LET e == Head(items)
           itemSize == calculateItemSize(e.key, e.item)
       IN evictLoopAll([s EXCEPT !.cache = MapDelete(@, e.key),
                                 !.currentCacheSize = @ - itemSize,
                                 !.evicted = Append(@, e)],
                       Tail(items))
  ELSE s

\* the while loop of checkAndCleanCacheSize
RECURSIVE evictLoop(_, _)
evictLoop(s, items) ==
  IF s.currentCacheSize > s.maxCacheSize /\ Len(items) > 0
  THEN LET e == Head(items)
           itemSize == calculateItemSize(e.key, e.item)
       IN evictLoop([s EXCEPT !.cache = MapDelete(@, e.key),
                              !.currentCacheSize = @ - itemSize,
                              !.evicted = Append(@, e)],
                    Tail(items))
  ELSE s

checkAndCleanCacheSize(s, t) ==
  IF s.currentCacheSize <= s.maxCacheSize THEN s
  ELSE LET s1 == evictLoop(s, SortByTimestamp(s.cache))
       IN IF Len(s1.evicted) > 0 THEN saveCache(s1, t) ELSE s1


\* set that keeps the item of a key already present
setKeepsOld(s, text, result, from, to, t) ==
  LET key == generateKey(text, from, to)
      cacheItem == Item(result, t, from, to)
      s2 == IF MapHas(s.cache, key) THEN s
            ELSE [s EXCEPT !.currentCacheSize = @ + calculateItemSize(key, cacheItem),
                           !.cache = MapSet(@, key, cacheItem)]
  IN saveCache(checkAndCleanCacheSize(s2, t), t)

\* set that keeps the timestamp of an entry it replaces
setKeepsTimestamp(s, text, result, from, to, t) ==
  LET key == generateKey(text, from, to)
      cacheItem == Item(result,
                        IF MapHas(s.cache, key)
                        THEN MapGet(s.cache, key).timestamp ELSE t,
                        from, to)
      s1 == IF MapHas(s.cache, key)
            THEN [s EXCEPT !.currentCacheSize =
                             @ - calculateItemSize(key, MapGet(s.cache, key))]
            ELSE s
      s2 == [s1 EXCEPT !.currentCacheSize = @ + calculateItemSize(key, cacheItem),
                       !.cache = MapSet(@, key, cacheItem)]
  IN saveCache(checkAndCleanCacheSize(s2, t), t)

\* set that, replacing an entry, subtracts the old size and adds nothing
setSkipsAccounting(s, text, result, from, to, t) ==
  LET key == generateKey(text, from, to)
      cacheItem == Item(result, t, from, to)
      s1 == IF MapHas(s.cache, key)
            THEN [s EXCEPT !.currentCacheSize =
                             @ - calculateItemSize(key, MapGet(s.cache, key))]
            ELSE [s EXCEPT !.currentCacheSize =
                             @ + calculateItemSize(key, cacheItem)]
      s2 == [s1 EXCEPT !.cache = MapSet(@, key, cacheItem)]
  IN saveCache(checkAndCleanCacheSize(s2, t), t)

set(s, text, result, from, to, t) ==
  LET key == generateKey(text, from, to)
      cacheItem == Item(result, t, from, to)
      s1 == IF MapHas(s.cache, key)
            THEN [s EXCEPT !.currentCacheSize =
                             @ - calculateItemSize(key, MapGet(s.cache, key))]
            ELSE s
      s2 == [s1 EXCEPT !.currentCacheSize = @ + calculateItemSize(key, cacheItem),
                       !.cache = MapSet(@, key, cacheItem)]
  IN saveCache(checkAndCleanCacheSize(s2, t), t)


\* clear that does not reset the accounted size
clearKeepsSize(s, t) == saveCache([s EXCEPT !.cache = <<>>], t)

\* clear that also resets the hit and miss counters
clearResetsMetrics(s, t) ==
  saveCache([s EXCEPT !.cache = <<>>, !.currentCacheSize = 0,
                      !.metrics = NoMetrics], t)

clear(s, t) ==
  saveCache([s EXCEPT !.cache = <<>>, !.currentCacheSize = 0], t)

\* a quotient of two numbers, kept exact as numerator over denominator
Ratio(num, den) == [num |-> num, den |-> den]

\* getMetrics that divides the hits by the misses
getMetricsOverMisses(s) ==
  LET total == s.metrics.hits + s.metrics.misses IN
  [hitRate |-> IF total > 0 THEN Ratio(s.metrics.hits * 100, s.metrics.misses)
               ELSE Ratio(0, 1),
   avgResponseTime |->
     IF s.metrics.responses > 0
     THEN Ratio(s.metrics.totalResponseTime, s.metrics.responses)
     ELSE Ratio(0, 1),
   size |-> s.currentCacheSize]

\* getMetrics() of the instance s.  hitRate is (hits / total) * 100 and
\* avgResponseTime is totalResponseTime / responses; the quotients are kept
\* exact.
getMetricsOf(s) ==
  LET total == s.metrics.hits + s.metrics.misses IN
  [hitRate |-> IF total > 0 THEN Ratio(s.metrics.hits * 100, total)
               ELSE Ratio(0, 1),
   avgResponseTime |->
     IF s.metrics.responses > 0
     THEN Ratio(s.metrics.totalResponseTime, s.metrics.responses)
     ELSE Ratio(0, 1),
   size |-> s.currentCacheSize]

----------------------------------------------------------------------------
(* The state machine *)

Self ==
  [cache |-> cache, currentCacheSize |-> currentCacheSize, metrics |-> metrics,
   lastSaveTime |-> lastSaveTime, expirationTime |-> expirationTime,
   maxCacheSize |-> maxCacheSize, globalState |-> globalState,
   loadFailed |-> loadFailed, lastWrite |-> lastWrite,
   accepts |-> TRUE, ret |-> Null, saves |-> <<>>, evicted |-> <<>>]

\* size() that counts only the entries still within the window
sizeUnexpired ==
  Len(SelectSeq(cache, LAMBDA e : ~(now - e.item.timestamp > expirationTime)))

\* size(): the number of entries of the Map, expired ones included
size == Len(cache)

\* getMetrics()
getMetrics == getMetricsOf(Self)

\* the fields of the instance after a call that left it as s
Becomes(s) ==
  /\ cache' = s.cache
  /\ currentCacheSize' = s.currentCacheSize
  /\ metrics' = s.metrics
  /\ lastSaveTime' = s.lastSaveTime
  /\ expirationTime' = s.expirationTime
  /\ maxCacheSize' = s.maxCacheSize
  /\ globalState' = s.globalState
  /\ loadFailed' = s.loadFailed
  /\ lastWrite' = s.lastWrite

\* one more step, within the bound
Stepped == steps < MaxSteps /\ steps' = steps + 1

NoRequest == <<"", "", "">>

\* the item the Map holds under the key of req: <<item>>, or <<>> if none
Found(req) ==
  IF MapHas(cache, generateKey(req[1], req[2], req[3]))
  THEN <<MapGet(cache, generateKey(req[1], req[2], req[3]))>>
  ELSE <<>>

\* what a construction starts from: no instance, only the durable record gs
\* (new TranslationCache reads nothing of the instance it replaces)
Unbuilt(gs) ==
  [cache |-> <<>>, currentCacheSize |-> 0, metrics |-> NoMetrics,
   lastSaveTime |-> 0, expirationTime |-> 0, maxCacheSize |-> 0,
   globalState |-> gs, loadFailed |-> FALSE, lastWrite |-> <<>>,
   accepts |-> TRUE, ret |-> Null, saves |-> <<>>, evicted |-> <<>>]

\* the record of a call: its name, its arguments, the time it was made, the
\* value it returned, the entries it evicted, the outcome of each save it
\* requested, and what it started from: the entry count, the item under its
\* key, the time of the last write, and the instance as it was (before)
Call(op, req, value, s, had, prevWrite) ==
  [op |-> op, req |-> req, value |-> value, at |-> now, ret |-> s.ret,
   evicted |-> s.evicted, saves |-> s.saves,
   had |-> had, found |-> Found(req), prevWrite |-> prevWrite,
   before |-> IF op = "construct" THEN Unbuilt(globalState) ELSE Self]

Written(saves) == { i \in 1..Len(saves) : saves[i] = "written" }
Dropped(saves) == { i \in 1..Len(saves) : saves[i] = "dropped" }
Rejected(saves) == { i \in 1..Len(saves) : saves[i] = "rejected" }

\* the settings as package.json contributes them: no credentials, Baidu as
\* the default translator, 3 days and 20 MB
DefaultSettings ==
  [baidu |-> [appid |-> "", key |-> ""],
   tencent |-> [secretId |-> "", secretKey |-> ""],
   defaultTranslator |-> "baidu",
   cache |-> [expirationDays |-> 3, maxSizeMB |-> 20]]

NoInstance == <<>>

\* a handler of the extension: its name, the translator it used, the request
\* and format option of a translate, the time, how the call ended (outcome),
\* the value returned (Null when it threw or has not returned), whether it
\* threw, whether it issued a remote request, the caches it constructed, the
\* Map of the translator's cache and the durable record as the handler found
\* them, the translator whose cache had written that record ("": neither),
\* and whether the handler replaced the record
NoEvent ==
  [handler |-> "", translator |-> "", req |-> NoRequest, formatOption |-> "",
   at |-> 0, outcome |-> "", returned |-> Null, threw |-> FALSE,
   requested |-> FALSE, built |-> <<>>, before |-> <<>>, record |-> Absent,
   recordBy |-> "", wrote |-> FALSE]

\* one cache on its own: no translator around it and no second instance
Standalone ==
  /\ settings = DefaultSettings
  /\ peer = NoInstance
  /\ pending = {}
  /\ event = NoEvent

\* nothing seen yet
NoObservations == [hits |-> 0, misses |-> 0, latency |-> 0]

Init ==
  \E gs \in InitialSnapshots, cfg \in Configs :
    LET s == Constructor(gs, cfg, StartTime) IN
    /\ now = StartTime
    /\ steps = 0
    /\ cache = s.cache
    /\ currentCacheSize = s.currentCacheSize
    /\ metrics = s.metrics
    /\ lastSaveTime = s.lastSaveTime
    /\ expirationTime = s.expirationTime
    /\ maxCacheSize = s.maxCacheSize
    /\ globalState = s.globalState
    /\ loadFailed = s.loadFailed
    /\ lastWrite = s.lastWrite
    /\ observed = NoObservations
    /\ last = [op |-> "construct", req |-> NoRequest, value |-> "",
               at |-> StartTime, ret |-> s.ret, evicted |-> s.evicted,
               saves |-> s.saves, had |-> 0, found |-> <<>>,
               prevWrite |-> <<>>, before |-> Unbuilt(gs)]
    /\ Standalone

\* initCache: a new TranslationCache over the same context replaces the
\* instance (activation, and a change of the cache configuration)
Construct(cfg) ==
  /\ Stepped
  /\ \E s \in {Constructor(globalState, cfg, now)} :
       /\ Becomes(s)
       /\ observed' = NoObservations
       /\ last' = Call("construct", NoRequest, "", s, 0, <<>>)
       /\ UNCHANGED <<now, extension>>

\* accepts: whether the storage takes a write this call attempts
Set(req, result, accepts) ==
  /\ Stepped
  /\ \E s \in {set([Self EXCEPT !.accepts = accepts],
                   req[1], result, req[2], req[3], now)} :
       /\ Becomes(s)
       /\ last' = Call("set", req, result, s, size, lastWrite)
       /\ UNCHANGED <<now, observed, extension>>

\* get; elapsed (between the two readings of the clock on the hit path) is
\* nonzero only on a hit.  The caller sees a hit when a string is returned
\* and a miss when there was nothing under the key.
Get(req, elapsed, accepts) ==
  /\ Stepped
  /\ \E s \in {get([Self EXCEPT !.accepts = accepts],
                   req[1], req[2], req[3], now, elapsed)} :
       /\ elapsed > 0 => s.metrics.hits > metrics.hits
       /\ Becomes(s)
       /\ observed' =
            IF s.ret # Null
            THEN [observed EXCEPT !.hits = @ + 1, !.latency = @ + elapsed]
            ELSE IF Found(req) = <<>>
                 THEN [observed EXCEPT !.misses = @ + 1]
                 ELSE observed
       /\ last' = Call("get", req, "", s, size, lastWrite)
       /\ now' = now + elapsed
       /\ UNCHANGED extension

Clear(accepts) ==
  /\ Stepped
  /\ \E s \in {clear([Self EXCEPT !.accepts = accepts], now)} :
       /\ Becomes(s)
       /\ last' = Call("clear", NoRequest, "", s, size, lastWrite)
       /\ UNCHANGED <<now, observed, extension>>

\* size(): returns the entry count and assigns nothing
Size ==
  /\ Stepped
  /\ last' = Call("size", NoRequest, "", [Self EXCEPT !.ret = <<size>>],
                  size, lastWrite)
  /\ UNCHANGED <<cache, currentCacheSize, metrics, lastSaveTime, expirationTime,
                 maxCacheSize, globalState, loadFailed, lastWrite, observed,
                 now, extension>>

\* a debounce that defers: once the window has passed, a timer writes the
\* store if the record is not up to date
TickFlushes(dt) ==
  /\ Stepped
  /\ now' = now + dt
  /\ IF globalState # cacheObject(cache)
     THEN Becomes(saveCache(Self, now + dt))
     ELSE UNCHANGED <<cache, currentCacheSize, metrics, lastSaveTime,
                      expirationTime, maxCacheSize, globalState, loadFailed,
                      lastWrite>>
  /\ last' = Call("tick", NoRequest, "", Self, size, lastWrite)
  /\ UNCHANGED <<observed, extension>>

\* time passes between two calls
Tick(dt) ==
  /\ Stepped
  /\ now' = now + dt
  /\ last' = Call("tick", NoRequest, "", Self, size, lastWrite)
  /\ UNCHANGED <<cache, currentCacheSize, metrics, lastSaveTime, expirationTime,
                 maxCacheSize, globalState, loadFailed, lastWrite, observed,
                 extension>>

\* the storage takes every write
Next ==
  \/ \E cfg \in Configs : Construct(cfg)
  \/ \E req \in Requests, result \in Results : Set(req, result, TRUE)
  \/ \E req \in Requests, elapsed \in {0, StepMs} : Get(req, elapsed, TRUE)
  \/ Clear(TRUE)
  \/ Size
  \/ \E dt \in {StepMs, DayMs} : Tick(dt)

Spec == Init /\ [][Next]_vars

\* a call that attempts a write (it is outside the debounce window) which the
\* storage does not take
WriteFails ==
  /\ now - lastSaveTime >= SaveDebounceWindow
  /\ \/ \E req \in Requests, result \in Results : Set(req, result, FALSE)
     \/ \E req \in Requests : Get(req, 0, FALSE)
     \/ Clear(FALSE)

\* the storage may fail
NextFailing == Next \/ WriteFails

SpecFailing == Init /\ [][NextFailing]_vars

----------------------------------------------------------------------------
(* The extension: two translators, each with a cache over the same context *)

\* steps of SpecExtension after activation
MaxCalls == 3

MaxTextLength == 2000
DefaultExpirationDays == 3
DefaultMaxCacheSizeMB == 20
\* the fallback of the configuration listener of the Baidu-only activate
ListenerMaxCacheSizeMB == 50

\* text.length > 2000: a text of 2048 characters
Twice(s) == s \o s
LongText ==
  Twice(Twice(Twice(Twice(Twice(Twice(Twice(Twice(Twice(Twice(Twice("a")))))))))))

\* the fields of an instance that the instance owns (the durable record is
\* the context's)
Fields(s) ==
  [cache |-> s.cache, currentCacheSize |-> s.currentCacheSize,
   metrics |-> s.metrics, lastSaveTime |-> s.lastSaveTime,
   expirationTime |-> s.expirationTime, maxCacheSize |-> s.maxCacheSize,
   loadFailed |-> s.loadFailed, lastWrite |-> s.lastWrite]

\* tencentTranslator.cache as the methods take it
PeerSelf ==
  [cache |-> peer.cache, currentCacheSize |-> peer.currentCacheSize,
   metrics |-> peer.metrics, lastSaveTime |-> peer.lastSaveTime,
   expirationTime |-> peer.expirationTime, maxCacheSize |-> peer.maxCacheSize,
   globalState |-> globalState, loadFailed |-> peer.loadFailed,
   lastWrite |-> peer.lastWrite,
   accepts |-> TRUE, ret |-> Null, saves |-> <<>>, evicted |-> <<>>]

\* translator.cache
CacheOf(translator) == IF translator = "tencent" THEN PeerSelf ELSE Self

\* the cache of translator after a call that left it as s
CacheBecomes(translator, s) ==
  IF translator = "tencent"
  THEN /\ peer' = Fields(s)
       /\ globalState' = s.globalState
       /\ UNCHANGED <<cache, currentCacheSize, metrics, lastSaveTime,
                      expirationTime, maxCacheSize, loadFailed, lastWrite>>
  ELSE /\ Becomes(s)
       /\ UNCHANGED peer

\* initCache(context, expirationDays, maxCacheSizeMB) of either translator
initCache(gs, args, t) == Constructor(gs, args, t)

\* initCache(context): the defaults of the parameters
NoArguments ==
  [expirationDays |-> DefaultExpirationDays,
   maxCacheSizeMB |-> [num |-> DefaultMaxCacheSizeMB, den |-> 1]]

\* config.get<number>('expirationDays') || 3 and
\* config.get<number>('maxSizeMB') || fallbackMB; a setting of 0 is what
\* `||` takes for no value
CacheArguments(st, fallbackMB) ==
  [expirationDays |->
     IF st.cache.expirationDays # 0 THEN st.cache.expirationDays
     ELSE DefaultExpirationDays,
   maxCacheSizeMB |->
     IF st.cache.maxSizeMB.num # 0 THEN st.cache.maxSizeMB
     ELSE [num |-> fallbackMB, den |-> 1]]

\* a construction: the path it was made on and what it configured
Built(path, s) ==
  [path |-> path, expirationTime |-> s.expirationTime,
   maxCacheSize |-> s.maxCacheSize]

\* activate (both translators): each constructor builds a cache with the
\* defaults, then initCache replaces it with one built from the settings
activate(gs, st, t) ==
  LET b0 == initCache(gs, NoArguments, t)
      t0 == initCache(b0.globalState, NoArguments, t)
      b1 == initCache(t0.globalState, CacheArguments(st, DefaultMaxCacheSizeMB), t)
      t1 == initCache(b1.globalState, CacheArguments(st, DefaultMaxCacheSizeMB), t)
  IN [baidu |-> b1, tencent |-> Fields(t1), globalState |-> t1.globalState,
      built |-> <<Built("constructor", b0), Built("constructor", t0),
                  Built("activate", b1), Built("activate", t1)>>]

\* activate (Baidu translator only)
activateBaidu(gs, st, t) ==
  LET b0 == initCache(gs, NoArguments, t)
      b1 == initCache(b0.globalState, CacheArguments(st, DefaultMaxCacheSizeMB), t)
  IN [baidu |-> b1, tencent |-> NoInstance, globalState |-> b1.globalState,
      built |-> <<Built("constructor", b0), Built("activate", b1)>>]

\* the state right after an activation a at StartTime over the record gs
Activated(a, st, gs) ==
  /\ now = StartTime
  /\ steps = 0
  /\ cache = a.baidu.cache
  /\ currentCacheSize = a.baidu.currentCacheSize
  /\ metrics = a.baidu.metrics
  /\ lastSaveTime = a.baidu.lastSaveTime
  /\ expirationTime = a.baidu.expirationTime
  /\ maxCacheSize = a.baidu.maxCacheSize
  /\ loadFailed = a.baidu.loadFailed
  /\ lastWrite = a.baidu.lastWrite
  /\ globalState = a.globalState
  /\ peer = a.tencent
  /\ settings = st
  /\ pending = {}
  /\ observed = NoObservations
  /\ last = [op |-> "construct", req |-> NoRequest, value |-> "",
             at |-> StartTime, ret |-> a.baidu.ret, evicted |-> a.baidu.evicted,
             saves |-> a.baidu.saves, had |-> 0, found |-> <<>>,
             prevWrite |-> <<>>, before |-> Unbuilt(gs)]
  /\ event = [NoEvent EXCEPT !.handler = "activate", !.at = StartTime,
                             !.built = a.built, !.record = gs]

\* the translator whose cache wrote the durable record last
Writer == IF event.wrote THEN event.translator ELSE event.recordBy

(* SpecShared: the set calls of the two instances (translate, and the format *)
(* chosen in the translate command), in any order                            *)

SharedSettings ==
  { [DefaultSettings EXCEPT !.cache = [expirationDays |-> c.expirationDays,
                                       maxSizeMB |-> c.maxCacheSizeMB]] :
      c \in Configs }

InitShared ==
  \E gs \in InitialSnapshots, st \in SharedSettings :
    Activated(activate(gs, st, StartTime), st, gs)

\* translator.cache.set(text, result, from, to)
CacheSet(translator, req, result) ==
  /\ Stepped
  /\ \E s \in {set(CacheOf(translator), req[1], result, req[2], req[3], now)} :
       /\ CacheBecomes(translator, s)
       /\ last' = IF translator = "baidu"
                  THEN Call("set", req, result, s, size, lastWrite)
                  ELSE last
       /\ event' = [NoEvent EXCEPT !.handler = "set",
                                   !.translator = translator,
                                   !.req = req,
                                   !.at = now,
                                   !.before = CacheOf(translator).cache,
                                   !.record = globalState,
                                   !.recordBy = Writer,
                                   !.wrote = Written(s.saves) # {}]
       /\ UNCHANGED <<now, observed, settings, pending>>

NextShared ==
  \/ \E translator \in {"baidu", "tencent"}, req \in Requests,
         result \in Results : CacheSet(translator, req, result)
  \/ \E dt \in {StepMs, DayMs} : Tick(dt)

SpecShared == InitShared /\ [][NextShared]_vars

(* SpecExtension: activation, the configuration listener, the translate      *)
(* command and translate().  The handlers are recorded in event; last and    *)
(* observed, which record the calls made to the cache directly, stay as      *)
(* activation left them.                                                     *)

\* the credentials of each API: none, or both parts (and for Baidu, the
\* appid without the key)
BaiduConfigs ==
  { [appid |-> "", key |-> ""], [appid |-> "id", key |-> ""],
    [appid |-> "id", key |-> "k"] }

TencentConfigs ==
  { [secretId |-> "", secretKey |-> ""], [secretId |-> "id", secretKey |-> "k"] }

\* uliTranslation.cache: nothing that `||` takes for a value, or 1 day and
\* 5 MB
CacheSettings ==
  { [expirationDays |-> 0, maxSizeMB |-> [num |-> 0, den |-> 1]],
    [expirationDays |-> 1, maxSizeMB |-> [num |-> 5, den |-> 1]] }

Settings ==
  { [baidu |-> b, tencent |-> t, defaultTranslator |-> d, cache |-> c] :
      b \in BaiduConfigs, t \in TencentConfigs, d \in {"baidu", "tencent"},
      c \in CacheSettings }

\* the record found at activation: nothing, a translation of "a" (alone, or
\* with the formatted variant the translate command stores under
\* `${text}|${label}`), or an empty translation of "a"
CachedA == [key |-> "a|auto|en", item |-> <<Item("x", 0, "auto", "en")>>]
CachedVariant ==
  [key |-> "a|v|auto|en", item |-> <<Item("X", StepMs, "auto", "en")>>]
CachedEmpty == [key |-> "a|auto|en", item |-> <<Item("", 0, "auto", "en")>>]

ExtensionSnapshots ==
  { Absent,
    [kind |-> "object", entries |-> <<CachedA>>],
    [kind |-> "object", entries |-> <<CachedA, CachedVariant>>],
    [kind |-> "object", entries |-> <<CachedEmpty>>] }

\* what translate() is asked: (text, from, to)
TranslateRequests == { <<"a", "auto", "en">>, <<LongText, "auto", "en">> }

\* formatOption: none, or a label
FormatOptions == {"", "v"}

\* how a remote request settles: a translation (possibly empty), a response
\* with an error code, a rejected request, a timeout
Responses ==
  { [kind |-> "ok", text |-> "x"], [kind |-> "ok", text |-> ""],
    [kind |-> "errorCode", text |-> ""], [kind |-> "rejected", text |-> ""],
    [kind |-> "timeout", text |-> ""] }

\* isConfigValid() of each translator
isConfigValid(translator, st) ==
  IF translator = "tencent"
  THEN st.tencent.secretId # "" /\ st.tencent.secretKey # ""
  ELSE st.baidu.appid # "" /\ st.baidu.key # ""

\* `if (cachedResult)`: a string | null is taken when it is a non-empty string
Truthy(ret) == ret # Null /\ ret # Some("")

\* translate(text, from, to, formatOption) up to the remote request: the
\* cache after the lookups, how the call stands, and the value returned
translateLookup(s, valid, text, from, to, formatOption, t) ==
  IF ~valid THEN [s |-> s, outcome |-> "invalid", returned |-> Null]
  ELSE IF Len(text) > MaxTextLength
  THEN [s |-> s, outcome |-> "tooLong", returned |-> Null]
  ELSE LET cacheKey == IF formatOption # ""
                       THEN text \o "|" \o formatOption ELSE text
           s1 == get(s, cacheKey, from, to, t, 0)
       IN IF Truthy(s1.ret)
          THEN [s |-> s1, outcome |-> "cached", returned |-> s1.ret]
          ELSE IF formatOption # ""
          THEN LET s2 == get(s1, text, from, to, t, 0) IN
               IF Truthy(s2.ret)
               THEN [s |-> s2, outcome |-> "cached", returned |-> s2.ret]
               ELSE [s |-> s2, outcome |-> "requested", returned |-> Null]
          ELSE [s |-> s1, outcome |-> "requested", returned |-> Null]

\* translate that stores an empty translation when the response carries an
\* error code
translateSettledCachesErrors(s, text, from, to, response, t) ==
  IF response.kind \in {"ok", "errorCode"}
  THEN [s |-> set(s, text, response.text, from, to, t),
        outcome |-> response.kind,
        returned |-> IF response.kind = "ok" THEN Some(response.text) ELSE Null]
  ELSE [s |-> s, outcome |-> response.kind, returned |-> Null]

\* the rest of translate, once the request has settled with response
translateSettled(s, text, from, to, response, t) ==
  IF response.kind = "ok"
  THEN [s |-> set(s, text, response.text, from, to, t), outcome |-> "ok",
        returned |-> Some(response.text)]
  ELSE [s |-> s, outcome |-> response.kind, returned |-> Null]

\* the translator the translate command uses; "" when neither is configured
chooseTranslator(st) ==
  LET baiduValid == isConfigValid("baidu", st)
      tencentValid == isConfigValid("tencent", st)
  IN IF ~baiduValid /\ ~tencentValid THEN ""
     ELSE IF st.defaultTranslator = "baidu" /\ baiduValid THEN "baidu"
     ELSE IF st.defaultTranslator = "tencent" /\ tencentValid THEN "tencent"
     ELSE IF baiduValid THEN "baidu"
     ELSE "tencent"

InitExtension ==
  \E gs \in ExtensionSnapshots, st \in Settings :
    \/ Activated(activate(gs, st, StartTime), st, gs)
    \/ Activated(activateBaidu(gs, st, StartTime), st, gs)

\* one more handler, within the bound
Handled == steps < MaxCalls /\ steps' = steps + 1

\* translator.translate(text, from, to, formatOption), called by handler, up
\* to its return, its throw or its remote request
Translating(handler, translator, req, formatOption) ==
  \E r \in {translateLookup(CacheOf(translator),
                             isConfigValid(translator, settings),
                             req[1], req[2], req[3], formatOption, now)} :
    /\ CacheBecomes(translator, r.s)
    /\ pending' = IF r.outcome = "requested"
                  THEN pending \cup {[translator |-> translator, req |-> req]}
                  ELSE pending
    /\ event' = [NoEvent EXCEPT !.handler = handler,
                                !.translator = translator,
                                !.req = req,
                                !.formatOption = formatOption,
                                !.at = now,
                                !.outcome = r.outcome,
                                !.returned = r.returned,
                                !.threw = r.outcome \in {"invalid", "tooLong"},
                                !.requested = r.outcome = "requested",
                                !.before = CacheOf(translator).cache,
                                !.record = globalState,
                                !.recordBy = Writer,
                                !.wrote = Written(r.s.saves) # {}]

\* translate() of either translator
Translate(translator, req, formatOption) ==
  /\ Handled
  /\ translator = "tencent" => peer # NoInstance
  /\ Translating("translate", translator, req, formatOption)
  /\ UNCHANGED <<now, settings, observed, last>>

\* the command uli-translation.translate on the selected text
TranslateCommand(text) ==
  /\ Handled
  /\ peer # NoInstance
  /\ \E translator \in {chooseTranslator(settings)} :
       IF translator = "" \/ text = ""
       THEN /\ event' = [NoEvent EXCEPT
                           !.handler = "command",
                           !.translator = translator,
                           !.at = now,
                           !.outcome = IF translator = "" THEN "unconfigured"
                                       ELSE "noText",
                           !.record = globalState,
                           !.recordBy = Writer]
            /\ UNCHANGED <<cache, currentCacheSize, metrics, lastSaveTime,
                           expirationTime, maxCacheSize, loadFailed, lastWrite,
                           globalState, peer, pending>>
       ELSE Translating("command", translator, <<text, "auto", "en">>, "")
  /\ UNCHANGED <<now, settings, observed, last>>

\* a remote request settles and translate resumes
Respond(p, response) ==
  /\ Handled
  /\ p \in pending
  /\ p.translator = "tencent" => peer # NoInstance
  /\ \E r \in {translateSettled(CacheOf(p.translator), p.req[1], p.req[2],
                                 p.req[3], response, now)} :
       /\ CacheBecomes(p.translator, r.s)
       /\ event' = [NoEvent EXCEPT !.handler = "response",
                                   !.translator = p.translator,
                                   !.req = p.req,
                                   !.at = now,
                                   !.outcome = r.outcome,
                                   !.returned = r.returned,
                                   !.threw = r.outcome # "ok",
                                   !.before = CacheOf(p.translator).cache,
                                   !.record = globalState,
                                   !.recordBy = Writer,
                                   !.wrote = Written(r.s.saves) # {}]
  /\ pending' = pending \ {p}
  /\ UNCHANGED <<now, settings, observed, last>>

\* the cache settings change and the listener of the activate with both
\* translators runs: it rebuilds both caches
CacheSettingsChanged(c) ==
  /\ Handled
  /\ peer # NoInstance
  /\ c # settings.cache
  /\ settings' = [settings EXCEPT !.cache = c]
  /\ \E b \in {initCache(globalState,
                          CacheArguments(settings', DefaultMaxCacheSizeMB),
                          now)} :
     \E t \in {initCache(b.globalState,
                          CacheArguments(settings', DefaultMaxCacheSizeMB),
                          now)} :
       /\ Becomes([b EXCEPT !.globalState = t.globalState])
       /\ peer' = Fields(t)
       /\ event' = [NoEvent EXCEPT
                      !.handler = "configChange",
                      !.at = now,
                      !.built = <<Built("configChange", b),
                                  Built("configChange", t)>>,
                      !.record = globalState,
                      !.recordBy = Writer,
                      !.wrote = Written(b.saves) \cup Written(t.saves) # {}]
  /\ UNCHANGED <<now, pending, observed, last>>

\* the cache settings change and the listener of the Baidu-only activate
\* runs: it rebuilds the one cache
CacheSettingsChangedBaidu(c) ==
  /\ Handled
  /\ peer = NoInstance
  /\ c # settings.cache
  /\ settings' = [settings EXCEPT !.cache = c]
  /\ \E b \in {initCache(globalState,
                          CacheArguments(settings', ListenerMaxCacheSizeMB),
                          now)} :
       /\ Becomes(b)
       /\ event' = [NoEvent EXCEPT
                      !.handler = "configChange",
                      !.at = now,
                      !.built = <<Built("configChange", b)>>,
                      !.record = globalState,
                      !.recordBy = Writer,
                      !.wrote = Written(b.saves) # {}]
  /\ UNCHANGED <<now, peer, pending, observed, last>>

\* time passes between two handlers
Pass(dt) ==
  /\ Handled
  /\ now' = now + dt
  /\ UNCHANGED <<cache, currentCacheSize, metrics, lastSaveTime, expirationTime,
                 maxCacheSize, globalState, loadFailed, lastWrite, observed,
                 last, extension>>

NextExtension ==
  \/ \E translator \in {"baidu", "tencent"}, req \in TranslateRequests,
         formatOption \in FormatOptions :
       Translate(translator, req, formatOption)
  \/ \E text \in {"", "a", LongText} : TranslateCommand(text)
  \/ \E p \in pending, response \in Responses : Respond(p, response)
  \/ \E c \in CacheSettings : CacheSettingsChanged(c)
  \/ \E c \in CacheSettings : CacheSettingsChangedBaidu(c)
  \/ \E dt \in {StepMs, DayMs} : Pass(dt)

SpecExtension == InitExtension /\ [][NextExtension]_vars

----------------------------------------------------------------------------
(* Properties *)

KeyOf(req) == generateKey(req[1], req[2], req[3])

\* what get(req) would return now
Lookup(req) == get(Self, req[1], req[2], req[3], now, 0).ret

\* what get(req) would return at time t from the instance s
LookupIn(s, req, t) == get(s, req[1], req[2], req[3], t, 0).ret


\* the durable record is replaced only by a call that wrote it
RecordChangedOnlyByWrite ==
  globalState # last.before.globalState => Written(last.saves) # {}

\* the call c made again on the instance it started from, at the same time,
\* with a storage that accepts the write
Replay(c) ==
  CASE c.op = "set" ->
         set(c.before, c.req[1], c.value, c.req[2], c.req[3], c.at)
    [] c.op = "get" ->
         get(c.before, c.req[1], c.req[2], c.req[3], c.at, now - c.at)
    [] c.op = "clear" -> clear(c.before, c.at)

\* C1: whenever the instance was built from an absent or a well-formed
\* snapshot, the size reported by getMetrics() is the sum of the byte-size
\* estimates of the entries in the store.
SizeIsSumOfEntries ==
  ~loadFailed => getMetrics.size = SumSizes(cache)

\* C2: after a set, the accounted size is within the cap or the store is
\* empty, and the eviction stopped as soon as the size was within the cap:
\* before the last eviction the size was still above it.
SetKeepsSizeWithinCap ==
  last.op = "set" =>
    /\ currentCacheSize <= maxCacheSize \/ size = 0
    /\ LET ev == last.evicted IN
       ev # <<>> =>
         currentCacheSize + calculateItemSize(ev[Len(ev)].key, ev[Len(ev)].item)
           > maxCacheSize

EvictionStoppedEarly ==
  /\ last.op = "set"
  /\ last.evicted # <<>>
  /\ size > 0
  /\ currentCacheSize <= maxCacheSize

\* C3: no entry evicted by a set is strictly newer than an entry that
\* survives it; and when a set adds a third entry to a store of two, the
\* three of the same size, of increasing age, none expired, accounted
\* exactly, under a cap that holds two of them but not three, then the
\* oldest is absent and the other two are returned.
OldestEvictedFirst ==
  \A i \in 1..Len(last.evicted), j \in 1..Len(cache) :
    last.evicted[i].item.timestamp <= cache[j].item.timestamp

\* the entries the store held when the eviction of the last set began
BeforeEviction == last.evicted \o cache

RequestOf(key) == CHOOSE r \in Requests : KeyOf(r) = key

ThreeEqualEntries ==
  LET E == BeforeEviction
      sz == calculateItemSize(E[1].key, E[1].item)
  IN /\ last.had = 2
     /\ Len(E) = 3
     /\ \A i \in 1..3 :
          /\ calculateItemSize(E[i].key, E[i].item) = sz
          /\ last.at - E[i].item.timestamp <= expirationTime
          /\ \A j \in 1..3 : i # j => E[i].item.timestamp # E[j].item.timestamp
          /\ E[i].key = KeyOf(last.req) => E[i].item.timestamp = last.at
          /\ E[i].item.timestamp <= last.at
     /\ currentCacheSize + Len(last.evicted) * sz = 3 * sz
     /\ 2 * sz <= maxCacheSize
     /\ maxCacheSize < 3 * sz

EvictionOrder ==
  last.op = "set" =>
    /\ OldestEvictedFirst
    /\ ThreeEqualEntries =>
         LET E == BeforeEviction
             A == CHOOSE i \in 1..3 :
                    \A j \in 1..3 : E[i].item.timestamp <= E[j].item.timestamp
         IN \A i \in 1..3 :
              Lookup(RequestOf(E[i].key)) =
                IF i = A THEN Null ELSE Some(E[i].item.result)

ThirdEntryEvictedFirst ==
  /\ last.op = "set"
  /\ ThreeEqualEntries
  /\ Len(last.evicted) = 1
  /\ cache[2].key = KeyOf(last.req)
  /\ last.evicted[1].item.timestamp < cache[1].item.timestamp
  /\ cache[1].item.timestamp < cache[2].item.timestamp
  /\ Lookup(RequestOf(last.evicted[1].key)) = Null

\* C4: a get of (text, from, to) issued right after set(text, value, from, to)
\* returns value, unless the eviction of that set removed the entry.
RoundTrip ==
  (last.op = "set" /\ MapHas(cache, KeyOf(last.req))) =>
    Lookup(last.req) = Some(last.value)

RoundTripOverwrite ==
  /\ last.op = "set"
  /\ last.had = size
  /\ size > 0
  /\ last.evicted = <<>>
  /\ MapHas(cache, KeyOf(last.req))
  /\ Lookup(last.req) = Some(last.value)

\* C5: a get that finds an entry older than the expiration window returns
\* null, removes the entry, and leaves count() one less than before.
ExpiredGetRemoves ==
  ( /\ last.op = "get"
    /\ last.found # <<>>
    /\ last.at - last.found[1].timestamp > expirationTime ) =>
    /\ last.ret = Null
    /\ ~MapHas(cache, KeyOf(last.req))
    /\ size = last.had - 1

ExpiredGetHappened ==
  /\ last.op = "get"
  /\ last.found # <<>>
  /\ last.at - last.found[1].timestamp > expirationTime
  /\ last.ret = Null
  /\ size = last.had - 1

\* C6: a set leaves every other slot as it was (or evicted): for two
\* different requests that are free of the separator, or of which one is the
\* variant `${text}|${label}` of the other with the same language pair, a set
\* of one does not change the entry of the other.
NoSeparator(req) ==
  ~HasSeparator(req[1]) /\ ~HasSeparator(req[2]) /\ ~HasSeparator(req[3])

VariantOf(rv, r) ==
  /\ rv[2] = r[2]
  /\ rv[3] = r[3]
  /\ Len(rv[1]) > Len(r[1]) + 1
  /\ SubSeq(rv[1], 1, Len(r[1]) + 1) = r[1] \o "|"

IndependentSlots(r1, r2) ==
  /\ r1 # r2
  /\ \/ NoSeparator(r1) /\ NoSeparator(r2)
     \/ VariantOf(r1, r2)
     \/ VariantOf(r2, r1)

IndependentPairs ==
  { p \in Requests \X Requests : IndependentSlots(p[1], p[2]) }

ClearEmpties ==
  last.op = "clear" =>
    /\ size = 0
    /\ getMetrics.size = 0
    /\ \A req \in Requests : Lookup(req) = Null

ClearedEntries ==
  /\ last.op = "clear"
  /\ last.had > 1
  /\ size = 0

\* C8: a save request is dropped only if this instance wrote the durable
\* record less than SaveDebounceWindow before the request.
DroppedOnlyAfterWrite ==
  Dropped(last.saves) # {} =>
    /\ lastWrite # <<>>
    /\ now - lastWrite[1] < SaveDebounceWindow

\* C9: two writes of the durable record by one instance are at least
\* SaveDebounceWindow apart: a call writes at most once, and not within the
\* window after the instance's previous write.
WritesApart ==
  Written(last.saves) # {} =>
    /\ Cardinality(Written(last.saves)) = 1
    /\ lastWrite = <<now>>
    /\ last.prevWrite # <<>> => now - last.prevWrite[1] >= SaveDebounceWindow

SecondWrite ==
  /\ Written(last.saves) # {}
  /\ last.prevWrite # <<>>

\* C10: when the snapshot could not be loaded, the constructor leaves an
\* empty store and an accounted size of 0.
FailedLoadStartsEmpty ==
  (last.op = "construct" /\ loadFailed) =>
    /\ cache = <<>>
    /\ currentCacheSize = 0

\* C11: right after a construction whose load did not fail, the store holds
\* exactly the entries of the persisted snapshot whose age at that time does
\* not exceed the expiration window, each as persisted; and if the sweep
\* removed an entry, a save was requested.
SweptAtConstruction ==
  (last.op = "construct" /\ ~loadFailed) =>
    LET snapshot == last.before.globalState.entries IN
    /\ \A i \in 1..Len(snapshot) :
         LET e == snapshot[i] IN
         IF last.at - e.item[1].timestamp <= expirationTime
         THEN MapHas(cache, e.key) /\ MapGet(cache, e.key) = e.item[1]
         ELSE ~MapHas(cache, e.key)
    /\ \A j \in 1..Len(cache) :
         \E i \in 1..Len(snapshot) : snapshot[i].key = cache[j].key
    /\ size < Len(snapshot) => last.saves # <<>>

SweepKeptSome ==
  /\ last.op = "construct"
  /\ ~loadFailed
  /\ size > 0
  /\ size < Len(last.before.globalState.entries)
  /\ last.saves # <<>>

\* C12: a get, set or clear whose write the storage rejected returns as it
\* would have with the write accepted, and leaves the same store, accounted
\* size and metrics; the durable record is as it was, and nothing replaces
\* it later but a write of a later call.
WriteFailureContained ==
  /\ Rejected(last.saves) # {} =>
       LET ok == Replay(last) IN
       /\ last.op \in {"get", "set", "clear"}
       /\ Written(ok.saves) # {}
       /\ last.ret = ok.ret
       /\ cache = ok.cache
       /\ currentCacheSize = ok.currentCacheSize
       /\ metrics = ok.metrics
       /\ globalState = last.before.globalState
  /\ RecordChangedOnlyByWrite

RejectedWriteOfSet ==
  /\ last.op = "set"
  /\ Rejected(last.saves) # {}
  /\ last.evicted # <<>>
  /\ MapHas(cache, KeyOf(last.req))
  /\ Lookup(last.req) = Some(last.value)
  /\ globalState # cacheObject(cache)

\* C13: with h hits and m misses seen by the callers since the instance was
\* built, getMetrics().hitRate is h / (h + m) * 100, and 0 when h + m = 0; it
\* lies between 0 and 100; after 3 hits and 1 miss it is 75.
HitRateFormula ==
  LET r == getMetrics.hitRate
      h == observed.hits
      m == observed.misses
  IN /\ r.den > 0
     /\ h + m = 0 => r.num = 0
     /\ h + m > 0 => r.num * (h + m) = h * 100 * r.den
     /\ 0 <= r.num
     /\ r.num <= 100 * r.den
     /\ (h = 3 /\ m = 1) => r.num = 75 * r.den

ThreeHitsOneMiss ==
  /\ last.op = "get"
  /\ observed.hits = 3
  /\ observed.misses = 1
  /\ getMetrics.hitRate.num = 75 * getMetrics.hitRate.den

\* whether the last call was a get that found an entry older than the window
FoundExpired ==
  /\ last.op = "get"
  /\ last.found # <<>>
  /\ last.at - last.found[1].timestamp > expirationTime

\* C14: avgResponseTime is the sum of the times measured on the hits divided
\* by the number of hits, and 0 when there was no hit; a get that returns
\* null changes neither the sum nor the divisor.
LatencyOfHitsOnly ==
  LET a == getMetrics.avgResponseTime IN
  /\ a.den > 0
  /\ observed.hits = 0 => a.num = 0
  /\ observed.hits > 0 => a.num * observed.hits = observed.latency * a.den
  /\ (last.op = "get" /\ last.ret = Null) =>
       /\ metrics.totalResponseTime = last.before.metrics.totalResponseTime
       /\ metrics.responses = last.before.metrics.responses

MissAfterTimedHits ==
  /\ last.op = "get"
  /\ last.ret = Null
  /\ last.found = <<>>
  /\ observed.hits = 2
  /\ observed.latency = StepMs
  /\ getMetrics.avgResponseTime.num * 2 = StepMs * getMetrics.avgResponseTime.den

\* C15: a get that finds an expired entry changes none of hits, misses, the
\* latency total and the response count, and hitRate is what it was.
ExpiredGetNotCounted ==
  FoundExpired =>
    /\ metrics = last.before.metrics
    /\ getMetrics.hitRate = getMetricsOf(last.before).hitRate
    /\ getMetrics.avgResponseTime = getMetricsOf(last.before).avgResponseTime

ExpiredGetAfterHitAndMiss ==
  /\ FoundExpired
  /\ last.ret = Null
  /\ observed.hits = 1
  /\ observed.misses = 1
  /\ getMetrics.hitRate.num = 50 * getMetrics.hitRate.den

\* the entries that set(req, result), made now on the instance s, would
\* evict, in the order of their eviction
WouldEvict(s, req, result) ==
  set(s, req[1], result, req[2], req[3], now).evicted

Range(q) == { q[i] : i \in 1..Len(q) }

\* C16 as stated: after any get, every set evicts the same entries as it
\* would have evicted had the get not been made.
GetsDoNotChangeEviction ==
  last.op = "get" =>
    \A req \in Requests, result \in Results :
      Range(WouldEvict(Self, req, result))
        = Range(WouldEvict(last.before, req, result))

\* C16: a get that does not find an expired entry leaves every entry and its
\* timestamp as they were, and with them all that the eviction of a later set
\* reads: the entries in their order, the accounted size and the cap.  A set
\* made after it evicts what it would have evicted had the get not been made.
ReadsDoNotRefresh ==
  (last.op = "get" /\ ~FoundExpired) =>
    /\ cache = last.before.cache
    /\ currentCacheSize = last.before.currentCacheSize
    /\ maxCacheSize = last.before.maxCacheSize
    /\ last.ret # Null =>
         \A result \in Results :
           WouldEvict(Self, last.req, result)
             = WouldEvict(last.before, last.req, result)

\* the entry just read is the oldest, and the next set evicts it and keeps a
\* newer entry that was not read
ReadEntryEvictedNext ==
  /\ last.op = "get"
  /\ last.ret # Null
  /\ \E req \in Requests, result \in Results :
       LET s == set(Self, req[1], result, req[2], req[3], now) IN
       /\ \E e \in Range(WouldEvict(Self, req, result)) :
            e.key = KeyOf(last.req)
       /\ Len(s.cache) = 2
       /\ KeyOf(req) # KeyOf(last.req)

\* C17: a set on a key the store holds puts under it the entry made of the
\* arguments and the time of the call; before the eviction the store has as
\* many entries as before the call, and the accounted size has changed by the
\* byte-size of the new entry minus that of the old one.
OverwriteReplaces ==
  (last.op = "set" /\ last.found # <<>>) =>
    LET key == KeyOf(last.req)
        new == Item(last.value, last.at, last.req[2], last.req[3])
        old == last.found[1]
    IN /\ MapHas(BeforeEviction, key)
       /\ MapGet(BeforeEviction, key) = new
       /\ Cardinality({ i \in 1..Len(BeforeEviction) :
                          BeforeEviction[i].key = key }) = 1
       /\ Len(BeforeEviction) = Len(last.before.cache)
       /\ currentCacheSize + SumSizes(last.evicted) =
            last.before.currentCacheSize
              + calculateItemSize(key, new) - calculateItemSize(key, old)

OverwriteChangedSize ==
  /\ last.op = "set"
  /\ last.found # <<>>
  /\ last.found[1].timestamp < last.at
  /\ last.found[1].result # last.value
  /\ last.evicted = <<>>
  /\ size = last.had
  /\ currentCacheSize # last.before.currentCacheSize
  /\ MapGet(cache, KeyOf(last.req)).timestamp = last.at

\* the properties of a durable record, and the entries of a Map, as sets of
\* (key, value) pairs
RecordPairs(gs) ==
  { <<gs.entries[i].key, gs.entries[i].item>> : i \in 1..Len(gs.entries) }

StorePairs(m) == { <<m[i].key, <<m[i].item>> >> : i \in 1..Len(m) }

\* C18: right after a call that wrote the durable record, the record has the
\* keys of the store and no other, each with the entry the store holds.
WriteIsWholeStore ==
  Written(last.saves) # {} =>
    /\ globalState.kind = "object"
    /\ RecordPairs(globalState) = StorePairs(cache)
    /\ Len(globalState.entries) = size

EarlierEntryNotLeftOver ==
  /\ Written(last.saves) # {}
  /\ size > 0
  /\ \E p \in RecordPairs(last.before.globalState) :
       /\ p[2] # <<>>
       /\ p \notin RecordPairs(globalState)
       /\ ~MapHas(cache, p[1])

\* whether the last call requested a save and every request was dropped
AllSavesDropped ==
  /\ last.saves # <<>>
  /\ Written(last.saves) = {}
  /\ Rejected(last.saves) = {}

\* the entries of the Map m that a construction at time t with cfg keeps
UnexpiredOf(m, cfg, t) ==
  SelectSeq(m, LAMBDA e :
                 t - e.item.timestamp <= cfg.expirationDays * DayMs)

\* C19: a call whose save requests were all dropped leaves the durable
\* record as it was; the passing of time writes nothing, however long; the
\* record changes only in a call that requests a save at least
\* SaveDebounceWindow after lastSaveTime; and when the record matched the
\* store before a call that changed the store and whose saves were dropped,
\* it does not match it after, and a new instance built from it holds the
\* unexpired entries of the store as it was before that call.
DroppedSaveIsLost ==
  /\ AllSavesDropped => globalState = last.before.globalState
  /\ last.op = "tick" =>
       /\ globalState = last.before.globalState
       /\ lastSaveTime = last.before.lastSaveTime
       /\ cache = last.before.cache
  /\ globalState # last.before.globalState =>
       /\ Written(last.saves) # {}
       /\ last.at - last.before.lastSaveTime >= SaveDebounceWindow
  /\ ( /\ AllSavesDropped
       /\ last.before.globalState = cacheObject(last.before.cache)
       /\ cache # last.before.cache ) =>
       /\ globalState # cacheObject(cache)
       /\ \A cfg \in Configs :
            Constructor(globalState, cfg, now).cache =
              UnexpiredOf(last.before.cache, cfg, now)

DroppedSetNotReloaded ==
  /\ last.op = "set"
  /\ AllSavesDropped
  /\ last.before.globalState = cacheObject(last.before.cache)
  /\ last.before.cache # <<>>
  /\ Lookup(last.req) = Some(last.value)
  /\ \A cfg \in Configs :
       LookupIn(Constructor(globalState, cfg, now), last.req, now) = Null

\* C20: size() returns the number of entries of the store, those older than
\* the expiration window included, and changes nothing.
CountIncludesExpired ==
  last.op = "size" =>
    /\ last.ret = <<Len(cache)>>
    /\ Self = last.before
    /\ now = last.at

ExpiredEntryCounted ==
  /\ last.op = "size"
  /\ last.ret = <<2>>
  /\ \A i \in 1..Len(cache) :
       /\ now - cache[i].item.timestamp > expirationTime
       /\ Lookup(RequestOf(cache[i].key)) = Null

\* C23: a get that finds an entry returns null exactly when the entry's age
\* is greater than the expiration window; at an age equal to the window it
\* returns the value and counts a hit.
StrictExpiration ==
  (last.op = "get" /\ last.found # <<>>) =>
    LET age == last.at - last.found[1].timestamp IN
    /\ last.ret = Null <=> age > expirationTime
    /\ age <= expirationTime =>
         /\ last.ret = Some(last.found[1].result)
         /\ metrics.hits = last.before.metrics.hits + 1

GetAtWindowEdge ==
  /\ last.op = "get"
  /\ last.found # <<>>
  /\ last.at - last.found[1].timestamp = expirationTime
  /\ last.ret = Some(last.found[1].result)
  /\ metrics.hits = last.before.metrics.hits + 1

\* C24: a get that finds an expired entry removes that key and no other; any
\* other get leaves the entries, the accounted size and the durable record as
\* they were and requests no save.
GetFrame ==
  last.op = "get" =>
    IF FoundExpired
    THEN cache = MapDelete(last.before.cache, KeyOf(last.req))
    ELSE /\ cache = last.before.cache
         /\ currentCacheSize = last.before.currentCacheSize
         /\ globalState = last.before.globalState
         /\ lastSaveTime = last.before.lastSaveTime
         /\ last.saves = <<>>

\* a hit made when the durable record is out of date and a save would be
\* written
HitLeavesStaleRecord ==
  /\ last.op = "get"
  /\ last.ret # Null
  /\ globalState # cacheObject(cache)
  /\ now - lastSaveTime >= SaveDebounceWindow
  /\ last.saves = <<>>

\* C25: within one instance the hit and miss counters never decrease; a get
\* adds 1 to at most one of them, and every other call leaves both as they
\* were, clear included.
CountersMonotone ==
  last.op # "construct" =>
    LET dh == metrics.hits - last.before.metrics.hits
        dm == metrics.misses - last.before.metrics.misses
    IN /\ dh \in {0, 1}
       /\ dm \in {0, 1}
       /\ dh + dm <= 1
       /\ last.op # "get" => dh + dm = 0

ClearKeptCounters ==
  /\ last.op = "clear"
  /\ last.had > 0
  /\ metrics.hits > 0
  /\ metrics.misses > 0
  /\ metrics = last.before.metrics

\* C26 as stated: a set whose own entry is no larger than the cap leaves
\* that entry in the store, and the get that follows returns its value.
SetKeepsFittingEntry ==
  ( /\ last.op = "set"
    /\ calculateItemSize(KeyOf(last.req),
                         Item(last.value, last.at, last.req[2], last.req[3]))
         <= maxCacheSize ) =>
    /\ MapHas(cache, KeyOf(last.req))
    /\ Lookup(last.req) = Some(last.value)

\* C27: the accounted size is never negative and never less than the sum of
\* the byte-size estimates of the entries in the store.
SizeNeverUndercounts ==
  /\ currentCacheSize >= 0
  /\ currentCacheSize >= SumSizes(cache)

OverCountedAfterSet ==
  /\ last.op = "set"
  /\ last.found # <<>>
  /\ size > 0
  /\ currentCacheSize > SumSizes(cache)

\* C28 as stated: when one instance replaces the durable record that the other
\* instance wrote, every entry of that record which the other instance still
\* holds is in the new record.
SharedRecordKeepsEntries ==
  (event.wrote /\ event.recordBy # "" /\ event.recordBy # event.translator) =>
    \A p \in RecordPairs(event.record) :
      p \in StorePairs(CacheOf(event.recordBy).cache) =>
        p \in RecordPairs(globalState)

\* C21 as stated: every cache constructed, on every path, has an expiration
\* window of expirationDays * 86,400,000 ms and a cap of maxSizeMB * 1,048,576
\* bytes, with 3 days and 20 MB where no value is supplied (the translator's
\* constructor supplies none).
EveryPathConfiguresAlike ==
  \A i \in 1..Len(event.built) :
    LET c == event.built[i]
        supplied == c.path # "constructor"
        days == IF supplied /\ settings.cache.expirationDays # 0
                THEN settings.cache.expirationDays ELSE 3
        mb == IF supplied /\ settings.cache.maxSizeMB.num # 0
              THEN settings.cache.maxSizeMB ELSE [num |-> 20, den |-> 1]
    IN /\ c.expirationTime = days * 86400000
       /\ c.maxCacheSize * mb.den = mb.num * 1048576

\* C22 as stated: the translate command uses the Tencent translator when
\* both APIs are validly configured, and the one that is when only one is.
CommandPrefersTencent ==
  event.handler = "command" =>
    LET baiduValid == isConfigValid("baidu", settings)
        tencentValid == isConfigValid("tencent", settings)
    IN /\ (baiduValid /\ tencentValid) => event.translator = "tencent"
       /\ (baiduValid /\ ~tencentValid) => event.translator = "baidu"
       /\ (~baiduValid /\ tencentValid) => event.translator = "tencent"

\* C29 as stated: a translate(text, from, to) that finds its translator
\* configured and an unexpired entry for (text, from, to) in the cache
\* returns the cached value, whatever it is, and issues no remote request.
CachedValueReturned ==
  ( /\ event.handler \in {"translate", "command"}
    /\ event.outcome \in {"cached", "requested"}
    /\ event.formatOption = ""
    /\ MapHas(event.before, KeyOf(event.req)) ) =>
    LET item == MapGet(event.before, KeyOf(event.req)) IN
    event.at - item.timestamp <= CacheOf(event.translator).expirationTime =>
      /\ event.returned = Some(item.result)
      /\ ~event.requested

\* the ways a translate fails
Failures == {"invalid", "tooLong", "errorCode", "rejected", "timeout"}

\* C30: a translate that fails throws, returns nothing and leaves the Map of
\* its translator's cache as it found it; the lookups of a translate add no
\* entry and replace none; an entry is added or replaced only when a remote
\* request settles with a response that carries no error code.
FailedTranslateStoresNothing ==
  event.outcome \in Failures \cup {"cached", "requested", "ok"} =>
    LET after == CacheOf(event.translator).cache IN
    /\ event.outcome \in Failures =>
         /\ event.threw
         /\ event.returned = Null
         /\ after = event.before
    /\ event.outcome # "ok" =>
         StorePairs(after) \subseteq StorePairs(event.before)
    /\ event.outcome = "ok" => event.handler = "response"

ErrorCodeLeftCacheAlone ==
  /\ event.handler = "response"
  /\ event.outcome = "errorCode"
  /\ event.threw
  /\ event.before # <<>>
  /\ CacheOf(event.translator).cache = event.before

====
